---------------------------- MODULE Spec2Model ----------------------------
(***************************************************************************)
(* Model of the federated-escrow core: EscrowPolicy (escrow_policy.rs) and *)
(* EscrowTransaction (escrow_tx.rs).                                       *)
(*                                                                         *)
(* Both structs are immutable after construction and every method takes    *)
(* &self.  The state is the two constructed objects plus the two most      *)
(* recent calls made on them (operation, arguments, outcome).  A builder   *)
(* call ends in the panic raised by todo!(); the caller may catch the      *)
(* unwind and go on calling, so calls follow one another in any order.     *)
(***************************************************************************)
EXTENDS Naturals, Sequences, FiniteSets

VARIABLES policy, inst, prev, last

vars == <<policy, inst, prev, last>>

(***************************************************************************)
(* Bounds and input sets.                                                  *)
(***************************************************************************)
MaxFee == 2

MaxAmount == 2

Keys == {"K1", "K2", "K3"}

Utxos == {"u1", "u2"}

Fees == 0..MaxFee

Amounts == 0..MaxAmount

\* Address values are opaque; the three roles of an instance get one each.
Addrs == {"addr_escrow", "addr_buyer", "addr_seller"}

NoCall == [op |-> "none"]

Builders ==
    {"build_funding_tx", "build_release_to_buyer_tx",
     "build_refund_to_seller_tx", "build_dispute_release_to_buyer_tx"}

Resolutions == Builders \ {"build_funding_tx"}

(***************************************************************************)
(* escrow_policy.rs                                                        *)
(***************************************************************************)
EscrowPolicy_new(seller, buyer, arbiter) ==
    [seller |-> seller, buyer |-> buyer, arbiter |-> arbiter]

pk(key) == <<"pk", key>>

\* Slips of the format string: a wrong threshold (1 or 3), keys listed in a
\* canonical order, a repeated key listed once.
to_miniscript_policy_1of3(self) ==
    <<"thresh", "1">> \o pk(self.seller) \o pk(self.buyer) \o pk(self.arbiter)

KeyRank(key) == CASE key = "K1" -> 1 [] key = "K2" -> 2 [] OTHER -> 3

to_miniscript_policy_sorted(self) ==
    LET ks == <<self.seller, self.buyer, self.arbiter>>
        below(i) == Cardinality({j \in 1..3 :
                        \/ KeyRank(ks[j]) < KeyRank(ks[i])
                        \/ KeyRank(ks[j]) = KeyRank(ks[i]) /\ j < i})
        at(n) == ks[CHOOSE i \in 1..3 : below(i) = n - 1]
    IN  <<"thresh", "2">> \o pk(at(1)) \o pk(at(2)) \o pk(at(3))

to_miniscript_policy_3of3(self) ==
    <<"thresh", "3">> \o pk(self.seller) \o pk(self.buyer) \o pk(self.arbiter)

to_miniscript_policy_dedup(self) ==
    <<"thresh", "2">> \o pk(self.seller)
        \o (IF self.buyer # self.seller THEN pk(self.buyer) ELSE <<>>)
        \o (IF self.arbiter \notin {self.seller, self.buyer}
               THEN pk(self.arbiter) ELSE <<>>)

\* format!("thresh(2,pk({}),pk({}),pk({}))", seller, buyer, arbiter): the
\* text is kept as its token sequence.
to_miniscript_policy(self) ==
    <<"thresh", "2">> \o pk(self.seller) \o pk(self.buyer) \o pk(self.arbiter)

DigitValue(t) ==
    CASE t = "1" -> 1 [] t = "2" -> 2 [] t = "3" -> 3 [] OTHER -> 0

\* Concrete::<PublicKey>::from_str: the threshold tree read back from text.
from_str(d) ==
    IF /\ Len(d) >= 4
       /\ Len(d) % 2 = 0
       /\ d[1] = "thresh"
       /\ \A i \in 2..(Len(d) \div 2) : d[2 * i - 1] = "pk"
    THEN LET n == (Len(d) \div 2) - 1
             k == DigitValue(d[2])
         IN  IF k >= 1 /\ k <= n
             THEN [kind |-> "ok",
                   policy |-> [k |-> k, subs |-> [i \in 1..n |-> d[2 * i + 2]]]]
             ELSE [kind |-> "err"]
    ELSE [kind |-> "err"]

parse(self) == from_str(to_miniscript_policy(self))

\* thresh(k, pk(..), ...): at least k of the listed sub-conditions hold; a
\* pk(key) sub-condition holds when key's holder has signed.
Satisfies(concrete, signers) ==
    Cardinality({i \in DOMAIN concrete.subs : concrete.subs[i] \in signers})
        >= concrete.k

\* "The policy just controls who can authorize": whether a spend of the
\* escrow output signed by `signers` is authorized, whatever it pays.
Authorized(self, signers) ==
    LET r == parse(self)
    IN  r.kind = "ok" /\ Satisfies(r.policy, signers)

(***************************************************************************)
(* escrow_tx.rs                                                            *)
(***************************************************************************)
EscrowTransaction_new(escrow_address, buyer_payout_address, seller_refund_address, fee_sats) ==
    [escrow_address |-> escrow_address,
     buyer_payout_address |-> buyer_payout_address,
     seller_refund_address |-> seller_refund_address,
     fee_sats |-> fee_sats]

\* todo!(msg) panics with msg; nothing is returned.
todo(msg) == [kind |-> "panic", msg |-> msg]

build_funding_tx(self, seller_utxo, amount) ==
    todo("Build funding TX: Seller locks sats into escrow")

build_release_to_buyer_tx(self, escrow_utxo, amount) ==
    todo("Build release TX: Escrow -> Buyer")

build_refund_to_seller_tx(self, escrow_utxo, amount) ==
    todo("Build refund TX: Escrow -> Seller")

build_dispute_release_to_buyer_tx(self, escrow_utxo, amount) ==
    todo("Build dispute release TX: Escrow -> Buyer")

\* The signer sets and destinations the doc comments give for each intent.
RequiredSigners(self, op) ==
    CASE op = "build_funding_tx" -> {self.seller}
      [] op = "build_release_to_buyer_tx" -> {self.seller, self.buyer}
      [] op = "build_refund_to_seller_tx" -> {self.arbiter, self.seller}
      [] op = "build_dispute_release_to_buyer_tx" -> {self.arbiter, self.buyer}

Destination(self, op) ==
    CASE op = "build_funding_tx" -> self.escrow_address
      [] op = "build_release_to_buyer_tx" -> self.buyer_payout_address
      [] op = "build_refund_to_seller_tx" -> self.seller_refund_address
      [] op = "build_dispute_release_to_buyer_tx" -> self.buyer_payout_address

(***************************************************************************)
(* The state machine.                                                      *)
(***************************************************************************)
\* Key values are opaque and interchangeable: the seller's key is named K1,
\* the buyer's and the arbiter's are any keys, equal to it or not.
Init ==
    /\ policy \in {EscrowPolicy_new("K1", b, a) : b \in Keys, a \in Keys}
    /\ inst \in {EscrowTransaction_new("addr_escrow", "addr_buyer",
                                       "addr_seller", f) : f \in Fees}
    /\ prev = NoCall
    /\ last = NoCall

CallToMiniscriptPolicy ==
    /\ last' = [op |-> "to_miniscript_policy",
                out |-> [kind |-> "string", val |-> to_miniscript_policy(policy)]]
    /\ prev' = last
    /\ UNCHANGED <<policy, inst>>

CallParse ==
    /\ last' = [op |-> "parse", out |-> parse(policy)]
    /\ prev' = last
    /\ UNCHANGED <<policy, inst>>

\* Key holders `signers` sign a spend of the escrow output paying `dest`;
\* the script check accepts it when the described condition is satisfied.
Sign(signers, dest) ==
    /\ last' = [op |-> "sign", signers |-> signers, dest |-> dest,
                out |-> [kind |-> "auth", valid |-> Authorized(policy, signers)]]
    /\ prev' = last
    /\ UNCHANGED <<policy, inst>>

CallBuildFundingTx(utxo, amount) ==
    /\ last' = [op |-> "build_funding_tx", utxo |-> utxo, amount |-> amount,
                out |-> build_funding_tx(inst, utxo, amount)]
    /\ prev' = last
    /\ UNCHANGED <<policy, inst>>

CallBuildReleaseToBuyerTx(utxo, amount) ==
    /\ last' = [op |-> "build_release_to_buyer_tx", utxo |-> utxo,
                amount |-> amount,
                out |-> build_release_to_buyer_tx(inst, utxo, amount)]
    /\ prev' = last
    /\ UNCHANGED <<policy, inst>>

CallBuildRefundToSellerTx(utxo, amount) ==
    /\ last' = [op |-> "build_refund_to_seller_tx", utxo |-> utxo,
                amount |-> amount,
                out |-> build_refund_to_seller_tx(inst, utxo, amount)]
    /\ prev' = last
    /\ UNCHANGED <<policy, inst>>

CallBuildDisputeReleaseToBuyerTx(utxo, amount) ==
    /\ last' = [op |-> "build_dispute_release_to_buyer_tx", utxo |-> utxo,
                amount |-> amount,
                out |-> build_dispute_release_to_buyer_tx(inst, utxo, amount)]
    /\ prev' = last
    /\ UNCHANGED <<policy, inst>>

Next ==
    \/ CallToMiniscriptPolicy
    \/ CallParse
    \/ \E signers \in SUBSET Keys, dest \in Addrs : Sign(signers, dest)
    \/ \E utxo \in Utxos, amount \in Amounts : CallBuildFundingTx(utxo, amount)
    \/ \E utxo \in Utxos, amount \in Amounts : CallBuildReleaseToBuyerTx(utxo, amount)
    \/ \E utxo \in Utxos, amount \in Amounts : CallBuildRefundToSellerTx(utxo, amount)
    \/ \E utxo \in Utxos, amount \in Amounts :
           CallBuildDisputeReleaseToBuyerTx(utxo, amount)

Spec == Init /\ [][Next]_vars

(***************************************************************************)
(* Helpers of the properties.                                              *)
(***************************************************************************)
PolicyKeys(self) == {self.seller, self.buyer, self.arbiter}

Distinct(self) == Cardinality(PolicyKeys(self)) = 3

IsBuild(call) == call.op \in Builders

IsSign(call) == call.op = "sign"

SameCall(c1, c2) ==
    /\ c1.op = c2.op
    /\ c1.op # "none"
    /\ IsBuild(c1) => c1.utxo = c2.utxo /\ c1.amount = c2.amount
    /\ IsSign(c1) => c1.signers = c2.signers /\ c1.dest = c2.dest

\* The roles of `self` with the keys of roles r1 and r2 exchanged.
Swapped(self, r1, r2) ==
    [r \in {"seller", "buyer", "arbiter"} |->
        IF r = r1 THEN self[r2] ELSE IF r = r2 THEN self[r1] ELSE self[r]]

IsTemplate(out) == out.kind = "template"

(***************************************************************************)
(* C1.  For pairwise-distinct seller, buyer and arbiter keys, a set of     *)
(* signers satisfies the described condition exactly when it holds at      *)
(* least two of the three keys: every pair and the triple do, no single    *)
(* key and not the empty set.                                              *)
(***************************************************************************)
C1_TwoOfThree ==
    (IsSign(last) /\ Distinct(policy)) =>
        (last.out.valid <=>
            Cardinality(last.signers \cap PolicyKeys(policy)) >= 2)

\* A single key was refused, then a pair of keys accepted.
C1_Witness ==
    /\ Distinct(policy)
    /\ IsSign(prev) /\ prev.signers = {policy.buyer} /\ ~prev.out.valid
    /\ IsSign(last) /\ last.signers = {policy.seller, policy.arbiter}
    /\ last.out.valid

C4_OneInputOneOutputExactAmount ==
    (IsBuild(last) /\ inst.fee_sats < last.amount) =>
        /\ IsTemplate(last.out)
        /\ last.out.inputs = <<last.utxo>>
        /\ Len(last.out.outputs) = 1
        /\ last.out.outputs[1].value = last.amount - inst.fee_sats

(***************************************************************************)
(* C5.  A builder called with fee_sats >= amount fails with the error      *)
(* value AmountError::InsufficientForFee, and a template is returned only  *)
(* when fee_sats < amount.                                                 *)
(***************************************************************************)
C5_InsufficientForFee ==
    IsBuild(last) =>
        /\ inst.fee_sats >= last.amount =>
               last.out.kind = "error" /\ last.out.err = "InsufficientForFee"
        /\ IsTemplate(last.out) => inst.fee_sats < last.amount

(***************************************************************************)
(* C6.  Resolution templates can be built again and again from the same    *)
(* source reference: a resolution builder called on a source another       *)
(* resolution builder was just called on still returns its template.       *)
(***************************************************************************)
C6_SameSourceBuiltTwice ==
    ( /\ prev.op \in Resolutions
      /\ last.op \in Resolutions
      /\ prev.utxo = last.utxo
      /\ inst.fee_sats < prev.amount
      /\ inst.fee_sats < last.amount ) =>
        /\ IsTemplate(prev.out) /\ prev.out.inputs = <<prev.utxo>>
        /\ IsTemplate(last.out) /\ last.out.inputs = <<last.utxo>>

(***************************************************************************)
(* C7.  Every builder call ends in a complete template (the destination of *)
(* its intent, a non-empty signer set) or in an error value; it never      *)
(* aborts without a result.                                                *)
(***************************************************************************)
C7_TemplateOrError ==
    IsBuild(last) =>
        /\ last.out.kind \in {"template", "error"}
        /\ IsTemplate(last.out) =>
               /\ Len(last.out.outputs) = 1
               /\ last.out.outputs[1].address = Destination(inst, last.op)
               /\ last.out.signers = RequiredSigners(policy, last.op)
               /\ last.out.signers # {}

C9_DuplicateKeyHolderSuffices ==
    /\ last.op = "to_miniscript_policy" =>
           /\ last.out.kind = "string"
           /\ Len(last.out.val) = 8
    /\ IsSign(last) =>
           \A k \in last.signers :
               Cardinality({r \in {"seller", "buyer", "arbiter"} :
                               policy[r] = k}) >= 2
                   => last.out.valid

\* Seller and buyer hold the same key; its holder signs alone and is accepted.
C9_Witness ==
    /\ policy.seller = policy.buyer
    /\ policy.arbiter # policy.seller
    /\ prev.op = "to_miniscript_policy"
    /\ IsSign(last)
    /\ last.signers = {policy.seller}
    /\ last.out.valid

(***************************************************************************)
(* C10.  No call changes the participant keys, the instance addresses or   *)
(* fee_sats; a call repeated with the same arguments gives the same        *)
(* result; and the descriptor lists the keys as seller, buyer, arbiter, so *)
(* that exchanging two distinct keys between roles changes it.             *)
(***************************************************************************)
C10_Deterministic == SameCall(prev, last) => prev.out = last.out

C10_OrderSensitive ==
    last.op = "to_miniscript_policy" =>
        /\ last.out.val = <<"thresh", "2", "pk", policy.seller,
                            "pk", policy.buyer, "pk", policy.arbiter>>
        /\ \A r1, r2 \in {"seller", "buyer", "arbiter"} :
               policy[r1] # policy[r2] =>
                   to_miniscript_policy(Swapped(policy, r1, r2)) # last.out.val

=============================================================================
